---- MODULE Spec2Model ----
(***************************************************************************)
(* US-Stock-Prediction/predict.py: the schema built from the dataset's     *)
(* column dtypes, the model artifact loaded at import time, and the        *)
(* /predict and /health endpoints of the FastAPI application.              *)
(*                                                                         *)
(* A Python dict is a sequence of <<key, value>> pairs with distinct keys, *)
(* in insertion order.  A JSON value is <<"num", n>> or <<"str", 0>> (a    *)
(* string that is not a number).  A Python float is a plain number.        *)
(***************************************************************************)
EXTENDS Integers, Sequences, FiniteSets, TLC

VARIABLES
    pc,                 \* position of the module-level code of predict.py
    artifact,           \* what is stored at xgboost_model.joblib
    globals,            \* names bound in the module namespace
    X,                  \* X.dtypes.items(): <<column, dtype>> in column order
    feature_types,      \* dict column -> python type or dtype label
    InputData,          \* the fields of the pydantic model, in field order
    model,              \* "unset", "None" or "Pipeline"
    prediction_mapping, \* dict class code -> label
    diagnostic,         \* detail of the exception that ended the import
    reqs,               \* the HTTP requests, by request number
    prev_feature_types, \* result of the previous run of the schema builder
    builds              \* number of runs of the schema builder

vars == <<pc, artifact, globals, X, feature_types, InputData, model,
          prediction_mapping, diagnostic, reqs, prev_feature_types, builds>>

\* ---------------------------------------------------------------- bounds
MaxReq == 2
MaxCols == 2
MaxBuilds == 2

FeatureNames == {"revenue", "debt_ratio"}
SchemaNames == {"revenue", "debt_ratio", "employees"}
DTypes == {"float64", "int64", "uint8", "object"}
JsonValues == {<<"num", 1>>, <<"num", 2>>, <<"str", 0>>}
Artifacts == {"absent", "corrupt", "pipeline", "none"}
ReqIds == 1..MaxReq

\* ------------------------------------------------------------ python dict
DictKeys(d) == {d[k][1] : k \in DOMAIN d}

DictGet(d, key, default) ==
    IF key \in DictKeys(d)
    THEN d[CHOOSE k \in DOMAIN d : d[k][1] = key][2]
    ELSE default

DictSet(d, key, value) ==
    IF key \in DictKeys(d)
    THEN [k \in DOMAIN d |-> IF d[k][1] = key THEN <<key, value>> ELSE d[k]]
    ELSE Append(d, <<key, value>>)

\* Sequences of distinct elements of S, of length at most n.
RECURSIVE DistinctSeqs(_, _)
DistinctSeqs(S, n) ==
    IF n = 0 THEN {<<>>}
    ELSE LET shorter == DistinctSeqs(S, n - 1)
         IN  shorter \cup
             {Append(s, e) : <<s, e>> \in
                 {p \in shorter \X S : \A k \in DOMAIN p[1] : p[1][k] # p[2]}}

\* ---------------------------------------------------------- schema builder
dtype_mapping_no_uint8 ==
    << <<"float64", "float">>, <<"int64", "int">> >>

dtype_mapping ==
    << <<"float64", "float">>, <<"int64", "int">>, <<"uint8", "int">> >>

RECURSIVE FeatureTypesLoop(_, _)
FeatureTypesLoop(items, ft) ==
    IF items = <<>> THEN ft
    ELSE LET column == Head(items)[1]
             dtype == Head(items)[2]
             python_type == DictGet(dtype_mapping, dtype, dtype)
         IN  FeatureTypesLoop(Tail(items), DictSet(ft, column, python_type))

RECURSIVE DynamicFields(_)
DynamicFields(ft) ==
    IF ft = <<>> THEN <<>>
    ELSE DictSet(DynamicFields(SubSeq(ft, 1, Len(ft) - 1)),
                 ft[Len(ft)][1], ft[Len(ft)][2])

XColumns == [k \in DOMAIN X |-> X[k][1]]


\* Lines 30-37 as a function of X.dtypes.items().
SchemaBuilder(items) ==
    LET ft == FeatureTypesLoop(items, <<>>)
    IN  [feature_types |-> ft, InputData |-> DynamicFields(ft)]

\* ------------------------------------------------- request validation
Coercible(kind, value) == kind \in {"float", "int"} /\ value[1] = "num"

Coerce(kind, value) == value[2]

FieldErrors(field, body) ==
    IF field[1] \notin DictKeys(body)
    THEN << <<"missing", field[1]>> >>
    ELSE IF ~Coercible(field[2], DictGet(body, field[1], <<"null", 0>>))
         THEN << <<"parsing", field[1]>> >>
         ELSE <<>>

RECURSIVE ValidationErrors_firstOnly(_, _)
ValidationErrors_firstOnly(fields, body) ==
    IF fields = <<>> THEN <<>>
    ELSE IF FieldErrors(Head(fields), body) # <<>>
         THEN FieldErrors(Head(fields), body)
         ELSE ValidationErrors_firstOnly(Tail(fields), body)

RECURSIVE ValidationErrors(_, _)
ValidationErrors(fields, body) ==
    IF fields = <<>> THEN <<>>
    ELSE FieldErrors(Head(fields), body) \o ValidationErrors(Tail(fields), body)

ExtraErrors_forbid(fields, body) ==
    LET extra == SelectSeq(body, LAMBDA p : p[1] \notin DictKeys(fields))
    IN  [k \in DOMAIN extra |-> <<"extra_forbidden", extra[k][1]>>]

\* create_model sets no model_config: fields of the body that the model
\* does not declare are ignored.
ExtraErrors(fields, body) == <<>>

ValidatedData(fields, body) ==
    [k \in DOMAIN fields |->
        <<fields[k][1],
          Coerce(fields[k][2], DictGet(body, fields[k][1], <<"null", 0>>))>>]

\* --------------------------------------------------------------- requests
NoHealth == [status |-> "", model_loaded |-> FALSE, n_features |-> <<"null", 0>>]

NoReq ==
    [kind |-> "none", stage |-> "idle", body |-> <<>>, data |-> <<>>,
     row |-> <<>>, invoked |-> FALSE, raw |-> -1, status |-> 0,
     errors |-> <<>>, prediction |-> "", health |-> NoHealth]

BodyOf(keys, values) == [k \in DOMAIN keys |-> <<keys[k], values[k]>>]

\* The JSON objects a client can post: any keys, in any order.
Bodies ==
    UNION {{BodyOf(keys, values) : values \in [DOMAIN keys -> JsonValues]} :
              keys \in DistinctSeqs(FeatureNames, Cardinality(FeatureNames))}

\* ---------------------------------------------------------------- startup
ProviderListings ==
    {[k \in DOMAIN s |-> <<s[k], "float64">>] : s \in DistinctSeqs(FeatureNames, MaxCols)}

SchemaListings ==
    UNION {{[k \in DOMAIN s |-> <<s[k], d[k]>>] : d \in [DOMAIN s -> DTypes]} :
              s \in DistinctSeqs(SchemaNames, MaxCols)}

Init ==
    /\ pc = "start"
    /\ artifact \in Artifacts
    /\ globals = {}
    /\ X = <<>>
    /\ feature_types = <<>>
    /\ InputData = <<>>
    /\ model = "unset"
    /\ prediction_mapping = <<>>
    /\ diagnostic = ""
    /\ reqs = [i \in ReqIds |-> NoReq]
    /\ prev_feature_types = <<>>
    /\ builds = 0

\* uvicorn imports the module: lines 1-18 run.
StartProcess ==
    /\ pc = "start"
    /\ pc' = "dataset"
    /\ globals' = globals \cup {"dtype_mapping", "feature_types"}
    /\ UNCHANGED <<artifact, X, feature_types, InputData, model,
                   prediction_mapping, diagnostic, reqs, prev_feature_types, builds>>

\* Lines 21-28.  get_dataset raises when the dataset cannot be fetched, and
\* fit_transform raises on a frame without columns.
LoadDataset ==
    /\ pc = "dataset"
    /\ \E fetched \in BOOLEAN, listing \in ProviderListings :
          IF fetched /\ Len(listing) > 0
          THEN /\ X' = listing
               /\ globals' = globals \cup {"dataset", "imputer", "X_imputed", "X"}
               /\ pc' = "schema"
               /\ UNCHANGED diagnostic
          ELSE /\ diagnostic' = (IF fetched THEN "ValueError" ELSE "dataset not available")
               /\ pc' = "exited"
               /\ UNCHANGED <<X, globals>>
    /\ UNCHANGED <<artifact, feature_types, InputData, model, prediction_mapping,
                   reqs, prev_feature_types, builds>>

\* Lines 30-40.
BuildSchema ==
    /\ pc = "schema"
    /\ feature_types' = SchemaBuilder(X).feature_types
    /\ InputData' = SchemaBuilder(X).InputData
    /\ prev_feature_types' = feature_types
    /\ builds' = builds + 1
    /\ globals' = globals \cup {"dynamic_fields", "InputData", "app"}
    /\ pc' = "model"
    /\ UNCHANGED <<artifact, X, model, prediction_mapping, diagnostic, reqs>>

\* The except clauses print the diagnostic and go on instead of raising.
LoadModel_swallow ==
    /\ pc = "model"
    /\ IF artifact \in {"pipeline", "none"}
       THEN /\ model' = (IF artifact = "pipeline" THEN "Pipeline" ELSE "None")
            /\ globals' = globals \cup {"model_filename", "model"}
            /\ UNCHANGED diagnostic
       ELSE /\ diagnostic' = (IF artifact = "absent"
                              THEN "Model file 'xgboost_model.joblib' not found."
                              ELSE "Error loading model")
            /\ globals' = globals \cup {"model_filename"}
            /\ UNCHANGED model
    /\ pc' = "routes"
    /\ UNCHANGED <<artifact, X, feature_types, InputData, prediction_mapping,
                   reqs, prev_feature_types, builds>>

\* Lines 42-50.  joblib.load returns the object stored in the file, raises
\* FileNotFoundError when there is no file and another exception when the
\* file cannot be read back.
LoadModel ==
    /\ pc = "model"
    /\ IF artifact \in {"pipeline", "none"}
       THEN /\ model' = (IF artifact = "pipeline" THEN "Pipeline" ELSE "None")
            /\ globals' = globals \cup {"model_filename", "model"}
            /\ pc' = "routes"
            /\ UNCHANGED diagnostic
       ELSE /\ diagnostic' = (IF artifact = "absent"
                              THEN "Model file 'xgboost_model.joblib' not found."
                              ELSE "Error loading model")
            /\ globals' = globals \cup {"model_filename"}
            /\ pc' = "exited"
            /\ UNCHANGED model
    /\ UNCHANGED <<artifact, X, feature_types, InputData, prediction_mapping,
                   reqs, prev_feature_types, builds>>

PredictionMapping_swapped ==
    << <<0, "stock_value_increase">>, <<1, "stock_value_decrease">> >>

\* Lines 53-56.
PredictionMapping ==
    << <<0, "stock_value_decrease">>, <<1, "stock_value_increase">> >>

\* Lines 52-85: the mapping is bound and the two routes are registered; the
\* import is complete and the server accepts requests.
DefineRoutes ==
    /\ pc = "routes"
    /\ prediction_mapping' = PredictionMapping
    /\ globals' = globals \cup {"prediction_mapping", "predict", "health"}
    /\ pc' = "serving"
    /\ UNCHANGED <<artifact, X, feature_types, InputData, model, diagnostic,
                   reqs, prev_feature_types, builds>>


\* ------------------------------------------------------------- data frame
ModelDump(data) == [k \in DOMAIN data |-> <<data[k][1], data[k][2]>>]

DataFrame(dicts) ==
    LET first == dicts[1]
    IN  [columns |-> [k \in DOMAIN first |-> first[k][1]],
         rows |-> [r \in DOMAIN dicts |->
                      [k \in DOMAIN first |-> DictGet(dicts[r], first[k][1], 0)]]]

HasColumns(df, cols) ==
    \A k \in DOMAIN cols : \E c \in DOMAIN df.columns : df.columns[c] = cols[k]

ColumnIndex(df, name) == CHOOSE c \in DOMAIN df.columns : df.columns[c] = name

SelectColumns_reversed(df, cols) ==
    [columns |-> cols,
     rows |-> [r \in DOMAIN df.rows |->
                  [k \in DOMAIN cols |->
                      df.rows[r][ColumnIndex(df, cols[Len(cols) + 1 - k])]]]]

\* input_df[X.columns]
SelectColumns(df, cols) ==
    [columns |-> cols,
     rows |-> [r \in DOMAIN df.rows |->
                  [k \in DOMAIN cols |-> df.rows[r][ColumnIndex(df, cols[k])]]]]

\* The loaded pipeline: one class code per row, a fixed function of the
\* row that depends on the position of each value.
RECURSIVE WeightedSum(_)
WeightedSum(row) ==
    IF row = <<>> THEN 0
    ELSE Len(row) * row[Len(row)] + WeightedSum(SubSeq(row, 1, Len(row) - 1))

ModelPredict(df) == [r \in DOMAIN df.rows |-> WeightedSum(df.rows[r]) % 3]

AfterGet_pop(d, key) == SelectSeq(d, LAMBDA p : p[1] # key)

\* dict.get leaves the dict as it is.
AfterGet(d, key) == d

\* ---------------------------------------------------------------- handlers
Arrives(i) ==
    /\ pc = "serving"
    /\ reqs[i].stage = "idle"
    /\ \A j \in ReqIds : j < i => reqs[j].stage # "idle"

\* POST /predict: FastAPI validates the body against InputData and answers
\* 422 with the list of errors, or binds the instance to the handler's data.
PostPredict(i, body) ==
    /\ Arrives(i)
    /\ LET errors == ValidationErrors(InputData, body) \o ExtraErrors(InputData, body)
       IN  IF errors # <<>>
           THEN reqs' = [reqs EXCEPT ![i] =
                    [NoReq EXCEPT !.kind = "predict", !.stage = "rejected",
                                  !.body = body, !.status = 422, !.errors = errors]]
           ELSE reqs' = [reqs EXCEPT ![i] =
                    [NoReq EXCEPT !.kind = "predict", !.stage = "validated",
                                  !.body = body,
                                  !.data = ValidatedData(InputData, body)]]
    /\ UNCHANGED <<pc, artifact, globals, X, feature_types, InputData, model,
                   prediction_mapping, diagnostic, prev_feature_types, builds>>

\* The instance is kept in one module-level name that every request rebinds.
BoundData_shared(i) ==
    LET bound == {j \in ReqIds : reqs[j].stage = "validated"}
    IN  reqs[CHOOSE j \in bound : \A k \in bound : j >= k].data

\* The data parameter of predict.
BoundData(i) == reqs[i].data

InputFrame(i) == DataFrame(<<ModelDump(BoundData(i))>>)

\* The body of predict, lines 63-74.  An exception in it is answered 500.
Predict(i) ==
    /\ pc = "serving"
    /\ reqs[i].stage = "validated"
    /\ IF ~HasColumns(InputFrame(i), XColumns) \/ model # "Pipeline"
       THEN /\ reqs' = [reqs EXCEPT ![i].stage = "responded", ![i].status = 500]
            /\ UNCHANGED prediction_mapping
       ELSE LET input_df == SelectColumns(InputFrame(i), XColumns)
                raw_prediction == ModelPredict(input_df)
                predicted_label == DictGet(prediction_mapping, raw_prediction[1], "Unknown")
            IN  /\ reqs' = [reqs EXCEPT ![i].stage = "responded",
                                        ![i].row = input_df.rows[1],
                                        ![i].invoked = TRUE,
                                        ![i].raw = raw_prediction[1],
                                        ![i].status = 200,
                                        ![i].prediction = predicted_label]
                /\ prediction_mapping' = AfterGet(prediction_mapping, raw_prediction[1])
    /\ UNCHANGED <<pc, artifact, globals, X, feature_types, InputData, model,
                   diagnostic, prev_feature_types, builds>>

ModelPresent_bound == "model" \in globals

\* Line 80.
ModelPresent == "model" \in globals /\ model # "None"

NFeatures_null == <<"null", 0>>

\* Lines 81-84.
NFeatures == IF "X" \in globals THEN <<"int", Len(XColumns)>> ELSE <<"null", 0>>

\* GET /health, lines 77-85.
Health(i) ==
    /\ Arrives(i)
    /\ reqs' = [reqs EXCEPT ![i] =
           [NoReq EXCEPT !.kind = "health", !.stage = "responded", !.status = 200,
                         !.health = [status |-> "ok",
                                     model_loaded |-> ModelPresent,
                                     n_features |-> NFeatures]]]
    /\ UNCHANGED <<pc, artifact, globals, X, feature_types, InputData, model,
                   prediction_mapping, diagnostic, prev_feature_types, builds>>

Next ==
    \/ StartProcess
    \/ LoadDataset
    \/ BuildSchema
    \/ LoadModel
    \/ DefineRoutes
    \/ \E i \in ReqIds, body \in Bodies : PostPredict(i, body)
    \/ \E i \in ReqIds : Predict(i)
    \/ \E i \in ReqIds : Health(i)

Spec == Init /\ [][Next]_vars

\* ------------------------------------------- the schema builder on its own
InitSchema ==
    /\ pc = "schema"
    /\ artifact = "pipeline"
    /\ globals = {"dtype_mapping", "feature_types", "dataset", "imputer", "X_imputed", "X"}
    /\ X \in SchemaListings
    /\ feature_types = <<>>
    /\ InputData = <<>>
    /\ model = "unset"
    /\ prediction_mapping = <<>>
    /\ diagnostic = ""
    /\ reqs = [i \in ReqIds |-> NoReq]
    /\ prev_feature_types = <<>>
    /\ builds = 0

\* Lines 30-37 run on the listing, and run again on the same listing.
ApplySchemaBuilder ==
    /\ builds < MaxBuilds
    /\ feature_types' = SchemaBuilder(X).feature_types
    /\ InputData' = SchemaBuilder(X).InputData
    /\ prev_feature_types' = feature_types
    /\ builds' = builds + 1
    /\ UNCHANGED <<pc, artifact, globals, X, model, prediction_mapping, diagnostic, reqs>>

NextSchema == ApplySchemaBuilder

SpecSchema == InitSchema /\ [][NextSchema]_vars


\* ================================================================ properties
ServiceStatus ==
    CASE pc = "start" -> "Uninitialized"
      [] pc \in {"dataset", "schema", "model", "routes"} -> "Initializing"
      [] pc = "serving" -> "Ready"
      [] pc = "exited" -> "FailedStartup"

FeatureSpecNames == {X[k][1] : k \in DOMAIN X}

Range(s) == {s[k] : k \in DOMAIN s}

\* The JSON value the body gives under a key.
ValueAt(body, name) == CHOOSE v \in JsonValues : <<name, v>> \in Range(body)

MissingFields(body) == FeatureSpecNames \ {p[1] : p \in Range(body)}

\* Every FeatureSpec name is in the body, with a number.
CompleteWellTyped(body) ==
    \A name \in FeatureSpecNames :
        \E v \in JsonValues : <<name, v>> \in Range(body) /\ v[1] = "num"

SameFieldValues(b1, b2) == Range(b1) = Range(b2)

ExpectedRow(body) == [k \in DOMAIN X |-> ValueAt(body, X[k][1])[2]]

LabelOfCode(c) ==
    CASE c = 0 -> "stock_value_decrease"
      [] c = 1 -> "stock_value_increase"
      [] OTHER -> "Unknown"

Completed(i) == reqs[i].stage \in {"rejected", "responded"}

Response(i) == <<reqs[i].status, reqs[i].errors, reqs[i].prediction, reqs[i].health>>

\* C1: a posted record that lacks at least one field of the schema is
\* answered 422, the answer names every missing field, and model.predict is
\* not called for it.
C1_MissingFieldRejected ==
    \A i \in ReqIds :
        (reqs[i].kind = "predict" /\ MissingFields(reqs[i].body) # {}) =>
            /\ reqs[i].stage = "rejected"
            /\ reqs[i].status = 422
            /\ \A name \in MissingFields(reqs[i].body) :
                   <<"missing", name>> \in Range(reqs[i].errors)
            /\ ~reqs[i].invoked

\* A record that lacks two fields was rejected.
C1_Witness ==
    \E i \in ReqIds :
        /\ reqs[i].stage = "rejected"
        /\ Cardinality(MissingFields(reqs[i].body)) >= 2

\* C2: whatever the order the keys of a validated record arrived in, the row
\* given to the model holds at position k the record's value for the k-th
\* column of X; two records with the same fields and values give the model
\* the same row and get the same prediction.
C2_RowInFeatureOrder ==
    /\ \A i \in ReqIds :
           reqs[i].invoked => reqs[i].row = ExpectedRow(reqs[i].body)
    /\ \A i, j \in ReqIds :
           (/\ reqs[i].invoked
            /\ reqs[j].invoked
            /\ SameFieldValues(reqs[i].body, reqs[j].body)) =>
               /\ reqs[i].row = reqs[j].row
               /\ reqs[i].prediction = reqs[j].prediction

\* Two records with the same fields in different key orders, with different
\* values in the two columns, were both given to the model.
C2_Witness ==
    \E i, j \in ReqIds :
        /\ reqs[i].invoked
        /\ reqs[j].invoked
        /\ SameFieldValues(reqs[i].body, reqs[j].body)
        /\ reqs[i].body # reqs[j].body
        /\ Len(reqs[i].row) >= 2
        /\ reqs[i].row[1] # reqs[i].row[2]

LoadFailed == "model_filename" \in globals /\ artifact \in {"absent", "corrupt"}

C3_Steps ==
    /\ ServiceStatus = "Uninitialized" => ServiceStatus' \in {"Uninitialized", "Initializing"}
    /\ ServiceStatus = "Initializing" =>
           ServiceStatus' \in {"Initializing", "Ready", "FailedStartup"}
    /\ ServiceStatus = "Ready" => ServiceStatus' = "Ready"
    /\ ServiceStatus = "FailedStartup" => ServiceStatus' = "FailedStartup"

C3_States ==
    /\ LoadFailed =>
           /\ ServiceStatus = "FailedStartup"
           /\ diagnostic = (IF artifact = "absent"
                            THEN "Model file 'xgboost_model.joblib' not found."
                            ELSE "Error loading model")
    /\ ServiceStatus # "Ready" => \A i \in ReqIds : reqs[i] = NoReq

\* C3: the process goes Uninitialized, Initializing, then Ready or
\* FailedStartup and stays there; when loading the artifact fails (no file,
\* or a file that cannot be read back, each with its own message) the process
\* is in FailedStartup; no request is served, and so model.predict is not
\* called, in a state other than Ready.
C3_StartupStateMachine == [][C3_Steps]_vars /\ []C3_States

\* Loading a file that cannot be read back has ended the process.
C3_Witness ==
    /\ LoadFailed
    /\ artifact = "corrupt"
    /\ ServiceStatus = "FailedStartup"
    /\ diagnostic = "Error loading model"

\* C4: health called while no model is loaded (the name model unbound, or
\* bound to None) answers without raising, with model_loaded false.
C4_HealthWithoutModel ==
    \A i \in ReqIds :
        (reqs[i].kind = "health" /\ model # "Pipeline") =>
            /\ reqs[i].stage = "responded"
            /\ reqs[i].status = 200
            /\ reqs[i].health.status = "ok"
            /\ reqs[i].health.model_loaded = FALSE

\* health was answered while model is None.
C4_Witness ==
    \E i \in ReqIds :
        /\ reqs[i].kind = "health"
        /\ reqs[i].stage = "responded"
        /\ model = "None"
        /\ reqs[i].health.model_loaded = FALSE

\* C5: a record with one number for each field of the schema is not
\* rejected, and when the model returns class code c for it predict answers
\* 200 with the label stock_value_decrease for c = 0, stock_value_increase
\* for c = 1 and Unknown for any other c.
C5_LabelForCode ==
    \A i \in ReqIds :
        (/\ reqs[i].kind = "predict"
         /\ CompleteWellTyped(reqs[i].body)
         /\ {p[1] : p \in Range(reqs[i].body)} = FeatureSpecNames) =>
            /\ reqs[i].stage \in {"validated", "responded"}
            /\ (reqs[i].stage = "responded" /\ model = "Pipeline") =>
                   /\ reqs[i].status = 200
                   /\ reqs[i].invoked
                   /\ reqs[i].raw = WeightedSum(ExpectedRow(reqs[i].body)) % 3
                   /\ reqs[i].prediction = LabelOfCode(reqs[i].raw)

\* The model returned code 2 and the answer was Unknown; another request got
\* the label of code 0 or 1.
C5_Witness ==
    /\ \E i \in ReqIds :
           reqs[i].invoked /\ reqs[i].raw = 2 /\ reqs[i].prediction = "Unknown"
    /\ \E i \in ReqIds :
           reqs[i].invoked /\ reqs[i].raw \in {0, 1} /\ reqs[i].status = 200

\* One error for each column, in column order, that the body lacks or gives
\* something other than a number.
RECURSIVE ExpectedErrors(_, _)
ExpectedErrors(body, columns) ==
    IF columns = <<>> THEN <<>>
    ELSE LET name == Head(columns)[1]
             here == IF name \in MissingFields(body)
                     THEN << <<"missing", name>> >>
                     ELSE IF ValueAt(body, name)[1] # "num"
                          THEN << <<"parsing", name>> >>
                          ELSE <<>>
         IN  here \o ExpectedErrors(body, Tail(columns))

\* What a request is answered when it is the only request of the process.
SoloResponse(i) ==
    IF reqs[i].kind = "health"
    THEN <<200, <<>>, "",
           [status |-> "ok",
            model_loaded |-> (model = "Pipeline"),
            n_features |-> <<"int", Len(X)>>]>>
    ELSE IF ~CompleteWellTyped(reqs[i].body)
         THEN <<422, ExpectedErrors(reqs[i].body, X), "", NoHealth>>
         ELSE IF model # "Pipeline"
              THEN <<500, <<>>, "", NoHealth>>
              ELSE <<200, <<>>,
                     LabelOfCode(WeightedSum(ExpectedRow(reqs[i].body)) % 3),
                     NoHealth>>

C6_Steps ==
    ServiceStatus = "Ready" =>
        UNCHANGED <<X, feature_types, InputData, model, prediction_mapping>>

C6_States == \A i \in ReqIds : Completed(i) => Response(i) = SoloResponse(i)

\* C6: once Ready, no step of a predict or health request, accepted or
\* rejected, changes the columns, the schema, the model or the label
\* mapping, and however the requests interleave each is answered what it
\* would be answered alone.
C6_RequestsIndependent == [][C6_Steps]_vars /\ []C6_States

\* A later request was answered while an earlier one with other data was
\* still waiting for its handler.
C6_Witness ==
    \E i, j \in ReqIds :
        /\ j < i
        /\ reqs[i].stage = "responded"
        /\ reqs[i].status = 200
        /\ reqs[j].stage = "validated"
        /\ reqs[j].data # reqs[i].data

C8_HealthWhenReady ==
    \A i \in ReqIds :
        (reqs[i].kind = "health" /\ model = "Pipeline") =>
            /\ reqs[i].health.status = "ok"
            /\ reqs[i].health.model_loaded = TRUE
            /\ reqs[i].health.n_features = <<"int", Len(feature_types)>>
            /\ Len(feature_types) > 0

\* health was answered with the model loaded and two features.
C8_Witness ==
    \E i \in ReqIds :
        /\ reqs[i].kind = "health"
        /\ reqs[i].stage = "responded"
        /\ model = "Pipeline"
        /\ reqs[i].health.n_features = <<"int", 2>>

ExpectedKind(dtype) ==
    CASE dtype = "float64" -> "float"
      [] dtype \in {"int64", "uint8"} -> "int"
      [] OTHER -> dtype

C10_ExtraFieldsIgnored ==
    \A i \in ReqIds :
        (reqs[i].kind = "predict" /\ CompleteWellTyped(reqs[i].body)) =>
            /\ reqs[i].stage \in {"validated", "responded"}
            /\ {p[1] : p \in Range(reqs[i].data)} = FeatureSpecNames
            /\ Len(reqs[i].data) = Len(X)
            /\ reqs[i].invoked =>
                   /\ Len(reqs[i].row) = Len(X)
                   /\ reqs[i].row = ExpectedRow(reqs[i].body)

\* A record with a field that is not in the schema was given to the model.
C10_Witness ==
    \E i \in ReqIds :
        /\ reqs[i].invoked
        /\ reqs[i].status = 200
        /\ {p[1] : p \in Range(reqs[i].body)} \ FeatureSpecNames # {}

====
